---- MODULE Spec2Model ----
(***************************************************************************)
(* The interview turn orchestration of hiready-flow: the interview-chat    *)
(* edge function (read-modify-write of one `interviews` row with a running *)
(* score aggregate), the generate-report edge function, and the voice      *)
(* interview page that drives them.                                        *)
(***************************************************************************)
EXTENDS Integers, Sequences, FiniteSets, TLC

\* ------------------------------------------------------------------ bounds

\* Number of edge-function invocations that may be in flight on the row at once.
MaxInFlight == 2

\* Number of events of one run that leave the nominal run (the page alone,
\* an Evaluator that answers with NominalEvaluation, a store that accepts
\* every write, a summarizer that answers with NominalReport).
MaxDeviations == 2

\* The callbacks a page may be waiting for at one time.
MaxPending == 2

\* ------------------------------------------------------- program constants

MAX_QUESTIONS == 8

MAX_TURNS == MAX_QUESTIONS

\* messages.slice(-6): the entries of the conversation that go to the Evaluator.
HISTORY_ENTRIES == 6

Slots == 1..MaxInFlight

\* ------------------------------------------------------------ message text

\* A text is a record; `ref` tells the answers (and the questions generated
\* for them) apart.
Content(kind, ref) == [kind |-> kind, ref |-> ref]

\* The empty string ''.
EmptyText == Content("empty", 0)

IntroQuestion == Content("intro", 0)

FallbackQuestion == Content("fallback", 0)

\* The page's own default when the response carries no `nextQuestion`.
ClientDefaultQuestion == Content("clientDefault", 0)

Message(role, content) == [role |-> role, content |-> content]

\* JS `a || b` on texts: '' is falsy.
TextOr(a, b) == IF a = EmptyText THEN b ELSE a

\* JS `a || b` on numbers: 0 (and a missing field, kept as 0) is falsy.
OrElse(a, b) == IF a # 0 THEN a ELSE b

\* messages[i]?.content || ''
ContentAt(messages, i) ==
    IF i \in 1..Len(messages) THEN TextOr(messages[i].content, EmptyText) ELSE EmptyText

\* ------------------------------------------------------------- evaluations

Dims == {"communicationScore", "confidenceScore", "technicalScore", "grammarScore"}

Evaluation(c, f, t, g) ==
    [communicationScore |-> c, confidenceScore |-> f, technicalScore |-> t, grammarScore |-> g]

\* The `evaluation` objects the Evaluator answers with.  A missing score is 0;
\* the last one carries a missing score and one above the 1..10 scale.
NominalEvaluation == Evaluation(8, 7, 6, 9)

EvaluatorEvaluations ==
    {NominalEvaluation, Evaluation(6, 8, 7, 10), Evaluation(0, 12, 6, 9)}

\* What one Evaluator call can come to: the HTTP call fails, the content is
\* not JSON, or it is JSON with or without an `evaluation`.
EvaluatorAnswers ==
    {[outcome |-> "unavailable", evaluation |-> <<>>],
     [outcome |-> "malformed", evaluation |-> <<>>],
     [outcome |-> "parsed", evaluation |-> <<>>]}
    \cup {[outcome |-> "parsed", evaluation |-> <<e>>] : e \in EvaluatorEvaluations}

NominalAnswer == [outcome |-> "parsed", evaluation |-> <<NominalEvaluation>>]

\* A rounding that truncates instead (Math.floor).
MathFloor(num, den) == num \div den

\* Math.round(num / den) for den > 0: halves round up.
MathRound(num, den) == (2 * num + den) \div (2 * den)

RECURSIVE SumScores(_, _)
\* answers.reduce((sum, a) => sum + (a[dim] || 0), 0)
SumScores(answers, dim) ==
    IF answers = <<>> THEN 0
    ELSE OrElse(Head(answers)[dim], 0) + SumScores(Tail(answers), dim)

\* ------------------------------------------------------------ the store row

\* analysis_result and reportUpdate are nullable: <<>> is null, <<v>> is v.
\* The default analysis of the chat handler, also standing for `{}`:
\* a field that is absent reads as 0 / FALSE / <<>>.
DefaultAnalysis ==
    [answers |-> <<>>,
     communicationScore |-> 0, confidenceScore |-> 0,
     technicalScore |-> 0, grammarScore |-> 0,
     evaluationCount |-> 0,
     overallScore |-> 0, hasReport |-> FALSE]

\* interviewData?.analysis_result || default
AnalysisOf(row) ==
    IF row.analysis_result = <<>> THEN DefaultAnalysis ELSE row.analysis_result[1]

\* The row that createInterview inserts.
NewInterview == [transcript |-> <<>>, analysis_result |-> <<>>, status |-> "in_progress"]

\* The columns of that row that never change: its id and the user it was
\* inserted for.
InterviewKey == [id |-> "interview", user_id |-> "candidate"]

\* Who asks, and for which interview.  The page and a direct POST of the
\* candidate name the candidate's interview; "foreign" is another user naming
\* it, "missing" the candidate naming an id that has no row, "anonymous" a
\* request whose token names no user.
RequestKey(via) ==
    CASE via = "foreign" -> [id |-> "interview", user_id |-> "other"]
      [] via = "missing" -> [id |-> "unknown", user_id |-> "candidate"]
      [] via = "anonymous" -> [id |-> "interview", user_id |-> "none"]
      [] OTHER -> InterviewKey

\* A filter that forgets the user.
SelectedByIdAlone(via) == RequestKey(via).id = InterviewKey.id

\* .eq('id', interviewId).eq('user_id', user.id): whether the filter of the
\* select, and of the update, matches the row.
Selected(via) == RequestKey(via) = InterviewKey

\* ------------------------------------------------------------------- state

VARIABLES
    interview,       \* the `interviews` row of the session
    handler,         \* the edge-function invocations in flight, by slot
    client,          \* the voice interview page: messages, questionCount, stage
    inFlightLimit,   \* how many requests the callers keep in flight at once
    deviations,      \* events that left the nominal run so far
    evaluatorCalls,  \* Evaluator (Groq chat) calls made by interview-chat
    turnsCompleted,  \* turns persisted to the row by interview-chat
    scoreLog,        \* the evaluations of the persisted scored turns, in order
    lastResponse,    \* the response sent last
    summarizerCalls  \* summarizer (Groq chat) calls made by generate-report

vars == <<interview, handler, client, inFlightLimit, deviations, evaluatorCalls,
          turnsCompleted, scoreLog, lastResponse, summarizerCalls>>

IdleHandler ==
    [pc |-> "idle", via |-> "none", messages |-> <<>>, questionText |-> EmptyText,
     reportUpdate |-> <<>>, outcome |-> "none", row |-> NewInterview,
     history |-> <<>>]

NoResponse ==
    [op |-> "none", status |-> 0, via |-> "none", first |-> FALSE, outcome |-> "none",
     message |-> EmptyText, reportUpdate |-> <<>>, report |-> <<>>, persisted |-> FALSE,
     error |-> "none"]

Busy == {h \in Slots : handler[h].pc # "idle"}

ClientBusy == \E h \in Slots : handler[h].pc # "idle" /\ handler[h].via = "client"

CanStart == Cardinality(Busy) < inFlightLimit /\ Cardinality(Busy) < MaxInFlight

FreeSlot == CHOOSE h \in Slots : handler[h].pc = "idle" /\ \A g \in Slots : g < h => handler[g].pc # "idle"

InitCommon ==
    /\ interview = NewInterview
    /\ handler = [h \in Slots |-> IdleHandler]
    /\ client = [stage |-> "mount", messages |-> <<>>, questionCount |-> 0]
    /\ deviations = 0
    /\ evaluatorCalls = 0
    /\ turnsCompleted = 0
    /\ scoreLog = <<>>
    /\ lastResponse = NoResponse
    /\ summarizerCalls = 0

Init == InitCommon /\ inFlightLimit = MaxInFlight

\* Callers that serialize their requests on the session.
InitSeq == InitCommon /\ inFlightLimit = 1

\* What the select of the row hands a handler.  Where no row matches,
\* interviewData is null, which interview-chat reads as an empty transcript
\* and no analysis.
InterviewData(via) == IF Selected(via) THEN interview ELSE NewInterview

\* ------------------------------------------------- interview-chat (server)

\* const isFirstQuestion = !messages || messages.length === 0
IsFirstQuestion(messages) == messages = <<>>

\* A handler that opens with the fallback question instead of the introduction.
QuestionTextWithoutIntro(messages, answer) ==
    IF IsFirstQuestion(messages) \/ answer.outcome = "malformed" THEN FallbackQuestion
    ELSE Content(IF answer.evaluation = <<>> THEN "generatedNoEval" ELSE "generated",
                 messages[Len(messages)].content.ref)

\* The question of the turn: the fixed introduction, the fallback after a
\* parse failure, or the Evaluator's nextQuestion (a text of its own for the
\* answer it follows, marked by whether an evaluation came with it).
QuestionText(messages, answer) ==
    IF IsFirstQuestion(messages) THEN IntroQuestion
    ELSE IF answer.outcome = "malformed" THEN FallbackQuestion
    ELSE Content(IF answer.evaluation = <<>> THEN "generatedNoEval" ELSE "generated",
                 messages[Len(messages)].content.ref)

\* A window taken from the start of the conversation: messages.slice(0, 6).
ConversationHistoryFromStart(messages) ==
    SubSeq(messages, 1,
           IF Len(messages) > HISTORY_ENTRIES THEN HISTORY_ENTRIES ELSE Len(messages))

\* const conversationHistory = messages.slice(-6)
ConversationHistory(messages) ==
    SubSeq(messages,
           IF Len(messages) > HISTORY_ENTRIES THEN Len(messages) - HISTORY_ENTRIES + 1
           ELSE 1,
           Len(messages))

\* The conversation entries of the Evaluator request; no request on the first
\* question.
EvaluatorRequest(messages) ==
    IF IsFirstQuestion(messages) THEN <<>> ELSE ConversationHistory(messages)

\* reportUpdate: null on the first question and after a parse failure.
ReportUpdate(messages, answer) ==
    IF IsFirstQuestion(messages) \/ answer.outcome # "parsed" THEN <<>>
    ELSE answer.evaluation

\* [...currentTranscript, ...messages, {role: 'assistant', content: assistantMessage}]
UpdatedTranscript(row, messages, questionText) ==
    row.transcript \o messages \o <<Message("assistant", questionText)>>

\* One entry of analysis_result.answers (its timestamp and notes left out).
AnswerEvaluation(messages, evaluation) ==
    [question |-> ContentAt(messages, Len(messages) - 1),
     answer |-> ContentAt(messages, Len(messages)),
     communicationScore |-> evaluation.communicationScore,
     confidenceScore |-> evaluation.confidenceScore,
     technicalScore |-> evaluation.technicalScore,
     grammarScore |-> evaluation.grammarScore]

\* The running average of one dimension over the answers.
RunningAverage(answers, dim) == MathRound(SumScores(answers, dim), Len(answers))

\* An update that counts every turn as an evaluation.
UpdatedAnalysisCountingEveryTurn(row, messages, reportUpdate) ==
    LET currentAnalysis == AnalysisOf(row)
        answers == IF reportUpdate # <<>> /\ ~IsFirstQuestion(messages)
                   THEN Append(currentAnalysis.answers,
                               AnswerEvaluation(messages, reportUpdate[1]))
                   ELSE currentAnalysis.answers
    IN [currentAnalysis EXCEPT
           !.answers = answers,
           !.communicationScore =
              IF answers = <<>> THEN 0 ELSE RunningAverage(answers, "communicationScore"),
           !.confidenceScore =
              IF answers = <<>> THEN 0 ELSE RunningAverage(answers, "confidenceScore"),
           !.technicalScore =
              IF answers = <<>> THEN 0 ELSE RunningAverage(answers, "technicalScore"),
           !.grammarScore =
              IF answers = <<>> THEN 0 ELSE RunningAverage(answers, "grammarScore"),
           !.evaluationCount = currentAnalysis.evaluationCount + 1]

\* An update that starts from the default analysis when the turn brought no
\* evaluation, instead of from the analysis it read.
UpdatedAnalysisResetWithoutScore(row, messages, reportUpdate) ==
    LET currentAnalysis == AnalysisOf(row) IN
    IF reportUpdate # <<>> /\ ~IsFirstQuestion(messages)
    THEN LET answers == Append(currentAnalysis.answers,
                               AnswerEvaluation(messages, reportUpdate[1]))
         IN [currentAnalysis EXCEPT
                !.answers = answers,
                !.communicationScore = RunningAverage(answers, "communicationScore"),
                !.confidenceScore = RunningAverage(answers, "confidenceScore"),
                !.technicalScore = RunningAverage(answers, "technicalScore"),
                !.grammarScore = RunningAverage(answers, "grammarScore"),
                !.evaluationCount = Len(answers)]
    ELSE DefaultAnalysis

\* The analysis the handler writes back: the one it read, with the new
\* evaluation folded in when there is one.
UpdatedAnalysis(row, messages, reportUpdate) ==
    LET currentAnalysis == AnalysisOf(row) IN
    IF reportUpdate # <<>> /\ ~IsFirstQuestion(messages)
    THEN LET answers == Append(currentAnalysis.answers,
                               AnswerEvaluation(messages, reportUpdate[1]))
         IN [currentAnalysis EXCEPT
                !.answers = answers,
                !.communicationScore = RunningAverage(answers, "communicationScore"),
                !.confidenceScore = RunningAverage(answers, "confidenceScore"),
                !.technicalScore = RunningAverage(answers, "technicalScore"),
                !.grammarScore = RunningAverage(answers, "grammarScore"),
                !.evaluationCount = Len(answers)]
    ELSE currentAnalysis

\* The body of a 200 response of interview-chat.
ChatResponseBody(questionText, reportUpdate) ==
    [message |-> questionText, reportUpdate |-> reportUpdate]

\* body[name], '' standing for undefined.
ResponseField(body, name) == IF name \in DOMAIN body THEN body[name] ELSE EmptyText

\* How far an Evaluator answer is from the nominal one.
AnswerCost(messages, answer) ==
    IF IsFirstQuestion(messages) \/ answer = NominalAnswer THEN 0 ELSE 1

\* A handler that takes a failed Evaluator call like a parse failure: the
\* fallback question, no evaluation, and on to the row.
ChatRequestDegradingOnFailure(via, messages, answer) ==
    /\ CanStart
    /\ IsFirstQuestion(messages) => answer = NominalAnswer
    /\ evaluatorCalls' = IF IsFirstQuestion(messages) THEN evaluatorCalls
                         ELSE evaluatorCalls + 1
    /\ handler' = [handler EXCEPT ![FreeSlot] =
          [pc |-> "chatLoaded", via |-> via, messages |-> messages,
           questionText |-> IF answer.outcome = "unavailable" THEN FallbackQuestion
                            ELSE QuestionText(messages, answer),
           reportUpdate |-> ReportUpdate(messages, answer),
           outcome |-> IF IsFirstQuestion(messages) THEN "first" ELSE answer.outcome,
           row |-> InterviewData(via),
           history |-> EvaluatorRequest(messages)]]
    /\ lastResponse' = lastResponse
    /\ UNCHANGED <<interview, inFlightLimit, turnsCompleted, scoreLog, summarizerCalls>>

\* The handler from the request to the select of the row: the Evaluator call
\* (none on the first question) and the parse.  A failed Evaluator call
\* throws, and the catch answers 500 without touching the row.
ChatRequest(via, messages, answer) ==
    /\ CanStart
    /\ IsFirstQuestion(messages) => answer = NominalAnswer
    /\ evaluatorCalls' = IF IsFirstQuestion(messages) THEN evaluatorCalls
                         ELSE evaluatorCalls + 1
    /\ IF ~IsFirstQuestion(messages) /\ answer.outcome = "unavailable"
       THEN /\ handler' = handler
            /\ lastResponse' =
                 [NoResponse EXCEPT !.op = "chat", !.status = 500, !.via = via,
                                    !.outcome = "unavailable",
                                    !.error = "Groq API error"]
       ELSE /\ handler' = [handler EXCEPT ![FreeSlot] =
                 [pc |-> "chatLoaded", via |-> via, messages |-> messages,
                  questionText |-> QuestionText(messages, answer),
                  reportUpdate |-> ReportUpdate(messages, answer),
                  outcome |-> IF IsFirstQuestion(messages) THEN "first"
                              ELSE answer.outcome,
                  row |-> InterviewData(via),
                  history |-> EvaluatorRequest(messages)]]
            /\ lastResponse' = lastResponse
    /\ UNCHANGED <<interview, inFlightLimit, turnsCompleted, scoreLog, summarizerCalls>>

\* The page on a 200 of sendMessage: initializeInterview after the first
\* request, processRecording after the others.
ClientOnChatResponse(sent, body) ==
    IF sent = <<>>
    THEN [client EXCEPT
            !.messages = <<Message("assistant",
                TextOr(ResponseField(body, "nextQuestion"), ClientDefaultQuestion))>>,
            !.questionCount = 1,
            !.stage = "ready"]
    ELSE [client EXCEPT
            !.messages = Append(sent, Message("assistant",
                TextOr(ResponseField(body, "nextQuestion"), EmptyText))),
            !.questionCount = client.questionCount + 1]

\* An update that also writes the status the row was created with.
ChatUpdateWritingStatus(current, req) ==
    [current EXCEPT
       !.transcript = UpdatedTranscript(req.row, req.messages, req.questionText),
       !.analysis_result = <<UpdatedAnalysis(req.row, req.messages, req.reportUpdate)>>,
       !.status = NewInterview.status]

\* update({ transcript: updatedTranscript, analysis_result: currentAnalysis }):
\* the row after the update, its other columns as they are in the store.
ChatUpdate(current, req) ==
    [current EXCEPT
       !.transcript = UpdatedTranscript(req.row, req.messages, req.questionText),
       !.analysis_result = <<UpdatedAnalysis(req.row, req.messages, req.reportUpdate)>>]

\* The handler from the select to the response: the update of transcript and
\* analysis_result in one statement, whose error nobody reads.  The update
\* carries the filter of the select, so it changes nothing where that
\* matched no row.
ChatPersist(h) ==
    /\ handler[h].pc = "chatLoaded"
    /\ \E writeOk \in BOOLEAN :
         LET req == handler[h]
             scored == req.reportUpdate # <<>> /\ ~IsFirstQuestion(req.messages)
             stored == writeOk /\ Selected(req.via)
         IN
         /\ ~writeOk => deviations < MaxDeviations
         /\ deviations' = IF writeOk THEN deviations ELSE deviations + 1
         /\ interview' = IF stored THEN ChatUpdate(interview, req) ELSE interview
         /\ turnsCompleted' = IF stored THEN turnsCompleted + 1 ELSE turnsCompleted
         /\ scoreLog' = IF stored /\ scored THEN Append(scoreLog, req.reportUpdate[1])
                        ELSE scoreLog
         /\ lastResponse' =
              [NoResponse EXCEPT !.op = "chat", !.status = 200, !.via = req.via,
                                 !.first = IsFirstQuestion(req.messages),
                                 !.outcome = req.outcome,
                                 !.message = req.questionText,
                                 !.reportUpdate = req.reportUpdate,
                                 !.persisted = stored]
         /\ client' = IF req.via = "client"
                      THEN ClientOnChatResponse(req.messages,
                                ChatResponseBody(req.questionText, req.reportUpdate))
                      ELSE client
    /\ handler' = [handler EXCEPT ![h] = IdleHandler]
    /\ UNCHANGED <<inFlightLimit, evaluatorCalls, summarizerCalls>>

\* ------------------------------------------------ generate-report (server)

Report(c, f, t, g, overall) ==
    [communicationScore |-> c, confidenceScore |-> f, technicalScore |-> t,
     grammarScore |-> g, overallScore |-> overall]

\* The JSON reports the summarizer answers with; a missing field is 0.
NominalReport == Report(8, 7, 6, 9, 8)

SummarizerReports == {NominalReport, Report(0, 7, 0, 9, 0)}

SummarizerAnswers ==
    {[outcome |-> "unavailable", report |-> <<>>],
     [outcome |-> "malformed", report |-> <<>>]}
    \cup {[outcome |-> "parsed", report |-> <<r>>] : r \in SummarizerReports}

NominalSummary == [outcome |-> "parsed", report |-> <<NominalReport>>]

\* The report built from the parsed JSON, its gaps filled from the running
\* analysis and then from 5.
ParsedReport(currentAnalysis, r) ==
    [answers |-> currentAnalysis.answers,
     communicationScore |->
        OrElse(r.communicationScore, OrElse(currentAnalysis.communicationScore, 5)),
     confidenceScore |->
        OrElse(r.confidenceScore, OrElse(currentAnalysis.confidenceScore, 5)),
     technicalScore |->
        OrElse(r.technicalScore, OrElse(currentAnalysis.technicalScore, 5)),
     grammarScore |->
        OrElse(r.grammarScore, OrElse(currentAnalysis.grammarScore, 5)),
     evaluationCount |-> OrElse(currentAnalysis.evaluationCount, 0),
     overallScore |->
        OrElse(r.overallScore,
               MathRound(OrElse(r.communicationScore, 5) + OrElse(r.confidenceScore, 5)
                         + OrElse(r.technicalScore, 5) + OrElse(r.grammarScore, 5), 4)),
     hasReport |-> TRUE]

\* The report built from the running analysis alone, after a parse failure.
FallbackReport(currentAnalysis) ==
    [answers |-> currentAnalysis.answers,
     communicationScore |-> OrElse(currentAnalysis.communicationScore, 5),
     confidenceScore |-> OrElse(currentAnalysis.confidenceScore, 5),
     technicalScore |-> OrElse(currentAnalysis.technicalScore, 5),
     grammarScore |-> OrElse(currentAnalysis.grammarScore, 5),
     evaluationCount |-> OrElse(currentAnalysis.evaluationCount, 0),
     overallScore |->
        MathRound(OrElse(currentAnalysis.communicationScore, 5)
                  + OrElse(currentAnalysis.confidenceScore, 5)
                  + OrElse(currentAnalysis.technicalScore, 5)
                  + OrElse(currentAnalysis.grammarScore, 5), 4),
     hasReport |-> TRUE]

\* A fallback that forgets the running analysis.
ReportResultFromDefaults(currentAnalysis, summary) ==
    IF summary.outcome = "parsed" THEN ParsedReport(currentAnalysis, summary.report[1])
    ELSE FallbackReport(DefaultAnalysis)

ReportResult(currentAnalysis, summary) ==
    IF summary.outcome = "parsed" THEN ParsedReport(currentAnalysis, summary.report[1])
    ELSE FallbackReport(currentAnalysis)

\* An update that leaves the status as it is.
ReportUpdateKeepingStatus(current, reportResult) ==
    [current EXCEPT !.analysis_result = <<reportResult>>]

\* update({ analysis_result: reportResult, status: 'completed' })
ReportUpdateCompleting(current, reportResult) ==
    [current EXCEPT !.analysis_result = <<reportResult>>, !.status = "completed"]

\* A handler that goes on without a row.
ReportRequestWithoutRow(via) ==
    /\ CanStart
    /\ handler' = [handler EXCEPT ![FreeSlot] =
          [IdleHandler EXCEPT !.pc = "reportLoaded", !.via = via,
                              !.row = InterviewData(via)]]
    /\ lastResponse' = lastResponse
    /\ UNCHANGED <<interview, inFlightLimit, evaluatorCalls, turnsCompleted, scoreLog,
                   summarizerCalls>>

\* The handler up to the select of the row, which answers 404 where no row
\* of the caller has the id.
ReportRequest(via) ==
    /\ CanStart
    /\ IF Selected(via)
       THEN /\ handler' = [handler EXCEPT ![FreeSlot] =
                 [IdleHandler EXCEPT !.pc = "reportLoaded", !.via = via,
                                     !.row = InterviewData(via)]]
            /\ lastResponse' = lastResponse
       ELSE /\ handler' = handler
            /\ lastResponse' =
                 [NoResponse EXCEPT !.op = "report", !.status = 404, !.via = via,
                                    !.error = "Interview not found"]
    /\ UNCHANGED <<interview, inFlightLimit, evaluatorCalls, turnsCompleted, scoreLog,
                   summarizerCalls>>

\* The page when generateReport settles: it leaves for the report page on
\* success and stays on an error.
ClientOnReportResponse(status) ==
    IF status = 200 THEN [client EXCEPT !.stage = "left"] ELSE client

\* The handler from the select to the response: the summarizer call, the
\* report, and the update of analysis_result and status.  A failed summarizer
\* call throws, and the catch answers 500 without touching the row; a failed
\* update answers 500 as well.
ReportPersist(h) ==
    /\ handler[h].pc = "reportLoaded"
    /\ \E summary \in SummarizerAnswers, writeOk \in BOOLEAN :
         LET req == handler[h]
             cost == (IF summary = NominalSummary THEN 0 ELSE 1)
                     + (IF writeOk THEN 0 ELSE 1)
             reportResult == ReportResult(AnalysisOf(req.row), summary)
             written == summary.outcome # "unavailable" /\ writeOk
             status == IF written THEN 200 ELSE 500
         IN
         /\ summary.outcome = "unavailable" => writeOk
         /\ deviations + cost <= MaxDeviations
         /\ deviations' = deviations + cost
         /\ interview' = IF written /\ Selected(req.via)
                         THEN ReportUpdateCompleting(interview, reportResult)
                         ELSE interview
         /\ lastResponse' =
              [NoResponse EXCEPT !.op = "report", !.status = status, !.via = req.via,
                                 !.outcome = summary.outcome,
                                 !.report = IF written THEN <<reportResult>> ELSE <<>>,
                                 !.persisted = written /\ Selected(req.via),
                                 !.error = IF summary.outcome = "unavailable"
                                           THEN "Groq API error"
                                           ELSE IF writeOk THEN "none"
                                           ELSE "Failed to save report"]
         /\ client' = IF req.via = "client" THEN ClientOnReportResponse(status) ELSE client
    /\ summarizerCalls' = summarizerCalls + 1
    /\ handler' = [handler EXCEPT ![h] = IdleHandler]
    /\ UNCHANGED <<inFlightLimit, evaluatorCalls, turnsCompleted, scoreLog>>

\* -------------------------------------------------- the voice interview page

\* The text speech-to-text makes of the candidate's next answer.
AnswerText(messages) == Content("answer", Len(messages) + 1)

\* A request sent while another is in flight leaves the nominal run, in
\* which every response is awaited.
StartCost == IF Busy = {} THEN 0 ELSE 1

\* initializeInterview: the first request, with no messages.
InitializeInterview ==
    /\ client.stage = "mount"
    /\ ~ClientBusy
    /\ deviations + StartCost <= MaxDeviations
    /\ deviations' = deviations + StartCost
    /\ ChatRequest("client", <<>>, NominalAnswer)
    /\ UNCHANGED client

\* processRecording: the answer joins the history; at MAX_QUESTIONS the page
\* asks for the report, otherwise for the next question.
ProcessRecording ==
    /\ client.stage = "ready"
    /\ ~ClientBusy
    /\ LET updatedMessages ==
             Append(client.messages, Message("user", AnswerText(client.messages)))
       IN
       /\ client' = [client EXCEPT !.messages = updatedMessages]
       /\ IF client.questionCount >= MAX_QUESTIONS
          THEN /\ deviations + StartCost <= MaxDeviations
               /\ deviations' = deviations + StartCost
               /\ ReportRequest("client")
          ELSE \E answer \in EvaluatorAnswers :
                 LET cost == StartCost + AnswerCost(updatedMessages, answer) IN
                 /\ deviations + cost <= MaxDeviations
                 /\ deviations' = deviations + cost
                 /\ ChatRequest("client", updatedMessages, answer)

\* handleEndInterview: the report once a question was answered, else away.
HandleEndInterview ==
    /\ client.stage = "ready"
    /\ ~ClientBusy
    /\ IF client.questionCount > 1
       THEN /\ deviations + 1 + StartCost <= MaxDeviations
            /\ deviations' = deviations + 1 + StartCost
            /\ ReportRequest("client")
            /\ UNCHANGED client
       ELSE /\ deviations < MaxDeviations
            /\ deviations' = deviations + 1
            /\ client' = [client EXCEPT !.stage = "left"]
            /\ UNCHANGED <<interview, handler, inFlightLimit, evaluatorCalls,
                           turnsCompleted, scoreLog, lastResponse, summarizerCalls>>

\* ----------------------------------------- requests from outside the page

\* The text of an answer posted to the endpoint directly.
DirectAnswerText(messages) == Content("answer", 100 + Len(messages) + 1)

\* A POST to interview-chat that does not come from the page: with no
\* messages, or with the conversation so far and one more answer.
DirectChat ==
    /\ \E via \in {"direct", "foreign", "missing"},
          messages \in {<<>>, Append(client.messages,
                                    Message("user", DirectAnswerText(client.messages)))},
          answer \in EvaluatorAnswers :
         LET cost == 1 + StartCost + AnswerCost(messages, answer) IN
         /\ deviations + cost <= MaxDeviations
         /\ deviations' = deviations + cost
         /\ ChatRequest(via, messages, answer)
    /\ UNCHANGED client

\* A POST to generate-report that does not come from the page.
DirectReport ==
    /\ \E via \in {"direct", "foreign", "missing"} :
         /\ deviations + 1 + StartCost <= MaxDeviations
         /\ deviations' = deviations + 1 + StartCost
         /\ ReportRequest(via)
    /\ UNCHANGED client

\* ------------------------------------------- requests without a valid user

\* if (authError || !user) return 401, the first thing interview-chat and
\* generate-report do.
Unauthorized(op) ==
    [NoResponse EXCEPT !.op = op, !.status = 401, !.via = "anonymous",
                       !.error = "Unauthorized"]

\* A POST to interview-chat whose token names no user.
AnonymousChat ==
    /\ CanStart
    /\ deviations + 1 + StartCost <= MaxDeviations
    /\ deviations' = deviations + 1 + StartCost
    /\ lastResponse' = Unauthorized("chat")
    /\ UNCHANGED <<interview, handler, client, inFlightLimit, evaluatorCalls,
                   turnsCompleted, scoreLog, summarizerCalls>>

\* A POST to generate-report whose token names no user.
AnonymousReport ==
    /\ CanStart
    /\ deviations + 1 + StartCost <= MaxDeviations
    /\ deviations' = deviations + 1 + StartCost
    /\ lastResponse' = Unauthorized("report")
    /\ UNCHANGED <<interview, handler, client, inFlightLimit, evaluatorCalls,
                   turnsCompleted, scoreLog, summarizerCalls>>

\* ------------------------------------------------- text-to-speech (server)

\* The whole handler: it reads { text, voice }, throws without a text, calls
\* ElevenLabs and answers with the audio, or 500 from its catch.  It never
\* looks at the caller.
SpeechResponse(via, text, speechOk) ==
    IF text = EmptyText
    THEN [NoResponse EXCEPT !.op = "speech", !.status = 500, !.via = via,
                            !.error = "No text provided"]
    ELSE IF speechOk
    THEN [NoResponse EXCEPT !.op = "speech", !.status = 200, !.via = via,
                            !.outcome = "spoken"]
    ELSE [NoResponse EXCEPT !.op = "speech", !.status = 500, !.via = via,
                            !.outcome = "unavailable",
                            !.error = "Failed to generate speech"]

\* A POST to text-to-speech, with or without a valid user.
TextToSpeech ==
    /\ CanStart
    /\ \E via \in {"direct", "anonymous"}, text \in {EmptyText, IntroQuestion},
          speechOk \in BOOLEAN :
         /\ text = EmptyText => speechOk
         /\ deviations + 1 + StartCost <= MaxDeviations
         /\ deviations' = deviations + 1 + StartCost
         /\ lastResponse' = SpeechResponse(via, text, speechOk)
    /\ UNCHANGED <<interview, handler, client, inFlightLimit, evaluatorCalls,
                   turnsCompleted, scoreLog, summarizerCalls>>

\* ------------------------------------------------------------ specification

Next ==
    \/ InitializeInterview
    \/ ProcessRecording
    \/ HandleEndInterview
    \/ DirectChat
    \/ DirectReport
    \/ \E h \in Slots : ChatPersist(h)
    \/ \E h \in Slots : ReportPersist(h)

Spec == Init /\ [][Next]_vars

\* The same program under callers that wait for one response before the
\* next request.
SpecSeq == InitSeq /\ [][Next]_vars

\* The endpoints open to the network: besides the candidate's and other
\* users' requests, requests that carry no valid token, and the speech
\* endpoint.
NextOpen ==
    \/ Next
    \/ AnonymousChat
    \/ AnonymousReport
    \/ TextToSpeech

SpecOpen == InitSeq /\ [][NextOpen]_vars

\* ------------------------------- the voice interview page: recording controls

\* The variables of the server side and of the requests, which the page models
\* below leave alone.
serverVars == <<interview, handler, inFlightLimit, deviations, evaluatorCalls,
                turnsCompleted, scoreLog, lastResponse, summarizerCalls>>

InitServer ==
    /\ interview = NewInterview
    /\ handler = [h \in Slots |-> IdleHandler]
    /\ inFlightLimit = 1
    /\ deviations = 0
    /\ evaluatorCalls = 0
    /\ turnsCompleted = 0
    /\ scoreLog = <<>>
    /\ lastResponse = NoResponse
    /\ summarizerCalls = 0

\* The page at the level of its flags and of the callbacks it waits for.
\* `acquiring` are the startRecording calls waiting for getUserMedia,
\* `recorder` the MediaRecorder of mediaRecorderRef while it records,
\* `stopEvents` the stop events not yet delivered, `tasks` the asynchronous
\* functions that wait for something; each carries the questionCount of the
\* render its closure was made in.
InitRecorder ==
    /\ InitServer
    /\ client = [isRecording |-> FALSE, isProcessing |-> FALSE, isAISpeaking |-> FALSE,
                 isInitializing |-> TRUE, interviewId |-> FALSE, questionCount |-> 0,
                 left |-> FALSE,
                 acquiring |-> <<>>, recorder |-> <<>>, stopEvents |-> <<>>,
                 tasks |-> <<[phase |-> "initCreate", count |-> 0]>>]

Pending == Len(client.acquiring) + Len(client.stopEvents) + Len(client.tasks)

RemoveAt(seq, i) == SubSeq(seq, 1, i - 1) \o SubSeq(seq, i + 1, Len(seq))

\* disabled={isAISpeaking || isProcessing || isInitializing}
MicEnabled ==
    ~client.left /\ ~client.isAISpeaking /\ ~client.isProcessing /\ ~client.isInitializing

\* toggleRecording: stopRecording while isRecording, else startRecording,
\* which first waits for the microphone.
ToggleRecording ==
    /\ MicEnabled
    /\ IF client.isRecording
       THEN client' =
              IF client.recorder # <<>>
              THEN [client EXCEPT !.recorder = <<>>,
                                  !.stopEvents = Append(@, client.recorder[1]),
                                  !.isRecording = FALSE]
              ELSE client
       ELSE /\ Pending < MaxPending
            /\ client' = [client EXCEPT !.acquiring = Append(@, client.questionCount)]
    /\ UNCHANGED serverVars

\* startRecording after getUserMedia: a new MediaRecorder takes the ref and
\* records, or the catch reports the failure.  A recorder that was in the ref
\* keeps recording, out of reach.
StartRecordingSettles ==
    /\ ~client.left
    /\ client.acquiring # <<>>
    /\ \E granted \in BOOLEAN :
         client' = IF granted
                   THEN [client EXCEPT !.acquiring = Tail(@),
                                       !.recorder = <<Head(client.acquiring)>>,
                                       !.isRecording = TRUE]
                   ELSE [client EXCEPT !.acquiring = Tail(@)]
    /\ UNCHANGED serverVars

\* mediaRecorder.onstop: processRecording begins, unless no interview was
\* created.
MediaRecorderOnStop ==
    /\ ~client.left
    /\ client.stopEvents # <<>>
    /\ client' =
         IF client.interviewId
         THEN [client EXCEPT
                 !.stopEvents = Tail(@),
                 !.isProcessing = TRUE,
                 !.tasks = Append(@, [phase |-> "stt", count |-> Head(client.stopEvents)])]
         ELSE [client EXCEPT !.stopEvents = Tail(@)]
    /\ UNCHANGED serverVars

\* The step of an asynchronous function when what it waits for settles.
\* initializeInterview: createInterview, sendMessage, textToSpeech, playAudio;
\* processRecording:
\* speechToText, then finishInterview at MAX_QUESTIONS or sendMessage,
\* textToSpeech, playAudio; finishInterview: generateReport, then the page
\* is left.
TaskSettles(i, ok, text) ==
    LET task == client.tasks[i]
        rest == RemoveAt(client.tasks, i)
        goOn(phase) == Append(rest, [task EXCEPT !.phase = phase])
    IN
    CASE task.phase = "initCreate" ->
           IF ok THEN [client EXCEPT !.interviewId = TRUE, !.tasks = goOn("initChat")]
           ELSE [client EXCEPT !.isInitializing = FALSE, !.tasks = rest]
      [] task.phase = "initChat" ->
           IF ok THEN [client EXCEPT !.questionCount = 1, !.tasks = goOn("initTts")]
           ELSE [client EXCEPT !.isInitializing = FALSE, !.tasks = rest]
      [] task.phase = "initTts" ->
           IF ok /\ text
           THEN [client EXCEPT !.isAISpeaking = TRUE, !.tasks = goOn("initAudio")]
           ELSE [client EXCEPT !.isInitializing = FALSE, !.tasks = rest]
      [] task.phase = "initAudio" ->
           [client EXCEPT !.isAISpeaking = FALSE, !.isInitializing = FALSE, !.tasks = rest]
      [] task.phase = "stt" ->
           IF ~ok \/ ~text
           THEN [client EXCEPT !.isProcessing = FALSE, !.tasks = rest]
           ELSE IF task.count >= MAX_QUESTIONS
           THEN [client EXCEPT !.isProcessing = TRUE, !.tasks = goOn("report")]
           ELSE [client EXCEPT !.tasks = goOn("chat")]
      [] task.phase = "chat" ->
           IF ok
           THEN [client EXCEPT !.questionCount = @ + 1, !.tasks = goOn("tts")]
           ELSE [client EXCEPT !.isProcessing = FALSE, !.tasks = rest]
      [] task.phase = "tts" ->
           IF ok /\ text
           THEN [client EXCEPT !.isAISpeaking = TRUE, !.tasks = goOn("audio")]
           ELSE [client EXCEPT !.isProcessing = FALSE, !.tasks = rest]
      [] task.phase = "audio" ->
           [client EXCEPT !.isAISpeaking = FALSE, !.isProcessing = FALSE, !.tasks = rest]
      [] OTHER ->
           IF ok THEN [client EXCEPT !.left = TRUE, !.tasks = rest]
           ELSE [client EXCEPT !.isProcessing = FALSE, !.tasks = rest]

AsyncSettles ==
    /\ ~client.left
    /\ \E i \in DOMAIN client.tasks, ok \in BOOLEAN, text \in BOOLEAN :
         client' = TaskSettles(i, ok, text)
    /\ UNCHANGED serverVars

\* The End Interview button, disabled={isProcessing}: finishInterview once a
\* question was answered, else away.
EndInterviewClick ==
    /\ ~client.left
    /\ ~client.isProcessing
    /\ IF client.interviewId /\ client.questionCount > 1
       THEN /\ Pending < MaxPending
            /\ client' = [client EXCEPT
                            !.isProcessing = TRUE,
                            !.tasks = Append(@, [phase |-> "report",
                                                 count |-> client.questionCount])]
       ELSE client' = [client EXCEPT !.left = TRUE]
    /\ UNCHANGED serverVars

NextRecorder ==
    \/ ToggleRecording
    \/ StartRecordingSettles
    \/ MediaRecorderOnStop
    \/ AsyncSettles
    \/ EndInterviewClick

SpecRecorder == InitRecorder /\ [][NextRecorder]_vars

\* ----------------------------------- the interview page with fixed questions

\* The texts of the eight questions, indexed as in the page.
INTERVIEW_QUESTIONS == [i \in 0..(MAX_QUESTIONS - 1) |-> Content("fixedQuestion", i)]

\* "Listening..."
Listening == Content("listening", 0)

\* "Interview complete! Click 'End Interview' to see your report."
InterviewComplete == Content("complete", 0)

\* What speech recognition heard while question `index` was the current one.
Speech(index) == Content("speech", index)

\* The page after its mount effect: askQuestion(0) plays the first audio.
\* `timers` are the delayed askNextQuestion calls, each with the
\* currentQuestionIndex of the render it was made in, `audio` the question
\* audios whose promise is not resolved, `asked` the audios played so far.
InitFixed ==
    /\ InitServer
    /\ client = [currentQuestionIndex |-> 0,
                 userAnswers |-> [i \in 0..(MAX_QUESTIONS - 1) |-> <<>>],
                 liveCaption |-> EmptyText,
                 isRecording |-> FALSE, isAISpeaking |-> TRUE, isInitializing |-> TRUE,
                 isProcessing |-> TRUE, showEndButton |-> FALSE, left |-> FALSE,
                 timers |-> <<>>,
                 audio |-> <<[index |-> 0, phase |-> "playing", mount |-> TRUE]>>,
                 asked |-> <<0>>]

\* askQuestion(index), for an index below MAX_QUESTIONS, up to its await.
AskQuestion(page, index) ==
    [page EXCEPT !.isProcessing = TRUE,
                 !.liveCaption = EmptyText,
                 !.isAISpeaking = TRUE,
                 !.audio = Append(@, [index |-> index, phase |-> "playing", mount |-> FALSE]),
                 !.asked = Append(@, index)]

\* playQuestionAudio settles: onended resolves at once, onerror after a
\* delay; askQuestion then shows the question, and the mount effect ends
\* the initialization.
QuestionAudioSettles ==
    /\ ~client.left
    /\ \E i \in DOMAIN client.audio, ended \in BOOLEAN :
         LET playing == client.audio[i]
             resolved == [client EXCEPT
                            !.isAISpeaking = IF playing.phase = "playing" THEN FALSE ELSE @,
                            !.liveCaption = INTERVIEW_QUESTIONS[playing.index],
                            !.isProcessing = FALSE,
                            !.isInitializing = IF playing.mount THEN FALSE ELSE @,
                            !.audio = RemoveAt(@, i)]
         IN
         /\ playing.phase = "delay" => ended
         /\ client' = IF ended
                      THEN resolved
                      ELSE [client EXCEPT !.isAISpeaking = FALSE,
                                          !.audio[i].phase = "delay"]
    /\ UNCHANGED serverVars

\* disabled={isAISpeaking || isProcessing || isInitializing}
FixedMicEnabled ==
    ~client.left /\ ~client.isAISpeaking /\ ~client.isProcessing /\ ~client.isInitializing

\* toggleRecording while not recording: startRecording.  The caption is
\* left as it is.  The recognition's onend never saves: its closure holds
\* the isRecording of before the start.
StartRecording ==
    /\ FixedMicEnabled
    /\ ~client.isRecording
    /\ client' = [client EXCEPT !.isRecording = TRUE]
    /\ UNCHANGED serverVars

\* recognition.onresult: the caption becomes what was heard, or
\* "Listening..." when that is empty.
OnResult ==
    /\ ~client.left
    /\ client.isRecording
    /\ \E heard \in BOOLEAN :
         client' = [client EXCEPT
                      !.liveCaption = IF heard THEN Speech(client.currentQuestionIndex)
                                      ELSE Listening]
    /\ UNCHANGED serverVars

\* The test of stopRecording on the caption.
IsAnswer(caption) ==
    /\ caption # EmptyText
    /\ caption # Listening
    /\ \A i \in DOMAIN INTERVIEW_QUESTIONS : caption # INTERVIEW_QUESTIONS[i]

\* toggleRecording while recording: stopRecording saves the caption as the
\* answer and sets the timer of askNextQuestion, or reports that nothing
\* was heard.
StopRecording ==
    /\ FixedMicEnabled
    /\ client.isRecording
    /\ IF IsAnswer(client.liveCaption)
       THEN /\ Len(client.timers) + Len(client.audio) < MaxPending
            /\ client' = [client EXCEPT
                            !.isRecording = FALSE,
                            !.userAnswers[client.currentQuestionIndex] = <<client.liveCaption>>,
                            !.timers = Append(@, client.currentQuestionIndex)]
       ELSE client' = [client EXCEPT !.isRecording = FALSE]
    /\ UNCHANGED serverVars

\* The timer of stopRecording fires: askNextQuestion.
AskNextQuestion ==
    /\ ~client.left
    /\ client.timers # <<>>
    /\ LET nextIndex == Head(client.timers) + 1
           page == [client EXCEPT !.timers = Tail(@)]
       IN client' = IF nextIndex >= MAX_QUESTIONS
                    THEN [page EXCEPT !.showEndButton = TRUE,
                                      !.liveCaption = InterviewComplete]
                    ELSE AskQuestion([page EXCEPT !.currentQuestionIndex = nextIndex],
                                     nextIndex)
    /\ UNCHANGED serverVars

\* The End buttons, disabled={isProcessing}: handleEndInterview leaves for
\* the report with userAnswers.
EndAndGetReport ==
    /\ ~client.left
    /\ ~client.isProcessing
    /\ client' = [client EXCEPT !.isRecording = FALSE, !.left = TRUE]
    /\ UNCHANGED serverVars

NextFixed ==
    \/ QuestionAudioSettles
    \/ StartRecording
    \/ OnResult
    \/ StopRecording
    \/ AskNextQuestion
    \/ EndAndGetReport

SpecFixed == InitFixed /\ [][NextFixed]_vars

\* ------------------------------------------------------------------ claims

ScoreOf == AnalysisOf(interview)

\* A step in which invocation h of interview-chat answers.
ChatAnswers(h) == handler[h].pc = "chatLoaded" /\ handler'[h].pc = "idle"

RECURSIVE LogSum(_, _)
LogSum(log, dim) == IF log = <<>> THEN 0 ELSE Head(log)[dim] + LogSum(Tail(log), dim)

\* r is sum/k rounded to the nearest integer, halves up.
IsRoundedMean(r, sum, k) == 2 * k * r - k <= 2 * sum /\ 2 * sum < 2 * k * r + k

IsPrefix(s, t) == Len(s) <= Len(t) /\ \A i \in 1..Len(s) : s[i] = t[i]

\* C1: under callers that serialize their requests, the persisted evaluation
\* count equals the number of persisted turns on which the Evaluator returned
\* a parseable evaluation; the first turn and degraded turns do not count.
C1_CountIsScoredTurns == ScoreOf.evaluationCount = Len(scoreLog)

C1_Witness ==
    /\ Len(scoreLog) = 2
    /\ ScoreOf.evaluationCount = 2
    /\ turnsCompleted = 4
    /\ lastResponse.op = "chat" /\ lastResponse.outcome = "malformed"
    /\ lastResponse.persisted

\* C2: under callers that serialize their requests, after each scored turn,
\* and in every state in which no report has replaced the running analysis,
\* k >= 1 scored turns with scores in 1..10 leave each persisted running mean
\* at round(sum / k).
C2_RunningMeanIsRoundedMean ==
    [][(/\ Len(scoreLog') >= 1
        /\ \A i \in 1..Len(scoreLog'), d \in Dims : scoreLog'[i][d] \in 1..10
        /\ interview'.status = "in_progress" \/ Len(scoreLog') > Len(scoreLog))
       => \A d \in Dims :
             IsRoundedMean(AnalysisOf(interview')[d], LogSum(scoreLog', d),
                           Len(scoreLog'))]_vars

C2_Witness ==
    /\ interview.status = "in_progress"
    /\ scoreLog = <<Evaluation(8, 7, 6, 9), Evaluation(6, 8, 7, 10)>>
    /\ ScoreOf.communicationScore = 7
    /\ ScoreOf.confidenceScore = 8

\* C3: whenever the evaluation count is > 0, each persisted running mean
\* lies in 1..10 (scores outside the scale are clamped first).
C3_MeansWithinScale ==
    ScoreOf.evaluationCount > 0 => \A d \in Dims : ScoreOf[d] \in 1..10

\* C4: the number of completed turns of the session never exceeds MAX_TURNS.
C4_TurnsWithinMax == turnsCompleted <= MAX_TURNS

\* C5: the first request (no messages) on a fresh session makes no Evaluator
\* call, answers with the introductory question and leaves the aggregate
\* all-zero.
C5_FirstCallSkipsEvaluator ==
    [][\A h \in Slots :
         /\ (handler[h].pc = "idle" /\ handler'[h].pc = "chatLoaded"
             /\ IsFirstQuestion(handler'[h].messages))
            => evaluatorCalls' = evaluatorCalls
         /\ (ChatAnswers(h) /\ IsFirstQuestion(handler[h].messages)
             /\ interview = NewInterview)
            => /\ evaluatorCalls' = evaluatorCalls
               /\ lastResponse'.status = 200
               /\ lastResponse'.message = IntroQuestion
               /\ \A d \in Dims : AnalysisOf(interview')[d] = 0
               /\ AnalysisOf(interview').evaluationCount = 0
               /\ AnalysisOf(interview').answers = <<>>]_vars

C5_Witness ==
    /\ lastResponse.op = "chat" /\ lastResponse.first /\ lastResponse.persisted
    /\ lastResponse.message = IntroQuestion
    /\ turnsCompleted = 1
    /\ evaluatorCalls = 0
    /\ interview.analysis_result = <<DefaultAnalysis>>

\* C6: under callers that serialize their requests, a turn whose Evaluator
\* response does not parse and whose write is stored leaves the aggregate as
\* it was, answers with the fallback question, appends the request's messages
\* and the question to the transcript and counts as a completed turn.
C6_MalformedKeepsAggregate ==
    [][\A h \in Slots :
         (ChatAnswers(h) /\ handler[h].outcome = "malformed" /\ lastResponse'.persisted)
         => /\ AnalysisOf(interview') = AnalysisOf(interview)
            /\ lastResponse'.status = 200
            /\ lastResponse'.message = FallbackQuestion
            /\ interview'.transcript =
                 interview.transcript \o handler[h].messages
                   \o <<Message("assistant", FallbackQuestion)>>
            /\ turnsCompleted' = turnsCompleted + 1
            /\ handler[h].via = "client"
               => client'.questionCount = client.questionCount + 1]_vars

C6_Witness ==
    /\ lastResponse.op = "chat" /\ lastResponse.outcome = "malformed"
    /\ lastResponse.persisted
    /\ lastResponse.message = FallbackQuestion
    /\ ScoreOf.evaluationCount = 1
    /\ turnsCompleted = 3

C8_StaleWriteRejected ==
    [][\A h \in Slots :
         (ChatAnswers(h) /\ Selected(handler[h].via) /\ handler[h].row # interview)
         => interview' = interview /\ lastResponse'.status = 409]_vars

\* C9: in every state of the row, every evaluation of the aggregate belongs
\* to an answer of the transcript, and every question of the transcript that
\* came with an evaluation has that evaluation in the aggregate.
C9_AggregateMatchesTranscript ==
    LET answers == ScoreOf.answers
        transcript == interview.transcript
    IN
    /\ \A i \in 1..Len(answers) : \E j \in 1..Len(transcript) :
          transcript[j].role = "user" /\ transcript[j].content = answers[i].answer
    /\ \A j \in 1..Len(transcript) :
          (transcript[j].role = "assistant" /\ transcript[j].content.kind = "generated")
          => \E i \in 1..Len(answers) : answers[i].answer.ref = transcript[j].content.ref

\* C10: every step leaves the transcript as it was or with entries added at
\* its end.
C10_TranscriptAppendOnly ==
    [][IsPrefix(interview.transcript, interview'.transcript)]_vars

\* A step in which an invocation of generate-report answers after its select.
ReportAnswers(h) == handler[h].pc = "reportLoaded" /\ handler'[h].pc = "idle"

\* The sum of the four dimension scores of a report.
DimSum(r) == r.communicationScore + r.confidenceScore + r.technicalScore + r.grammarScore

\* C11: the status of a session only moves forward: it starts as in_progress,
\* and once it is completed no step of a turn request or of a report request,
\* in any order or interleaving, sets it back.
C11_StatusOnlyForward ==
    /\ interview.status = "in_progress"
    /\ [][interview.status = "completed" => interview'.status = "completed"]_vars

\* C11, the case: a turn was persisted on a session that is completed.
C11_Witness ==
    /\ lastResponse.op = "chat"
    /\ lastResponse.persisted
    /\ interview.status = "completed"

\* C12: a turn request that names an interview which does not exist, or which
\* is not the caller's, fails: its response is no success and carries no
\* question.
C12_UnknownSessionFails ==
    (lastResponse.op = "chat" /\ ~Selected(lastResponse.via))
        => /\ lastResponse.status # 200
           /\ lastResponse.message = EmptyText

\* C13: no turn request and no report request of another user changes the
\* transcript, the aggregate or the status of the candidate's session.
C13_OwnerScoped ==
    [][(/\ lastResponse'.via # "none"
        /\ RequestKey(lastResponse'.via).user_id # InterviewKey.user_id
        /\ \/ lastResponse' # lastResponse
           \/ \E h \in Slots : ChatAnswers(h) \/ ReportAnswers(h))
       => interview' = interview]_vars

\* C13, the case: another user's turn request on a session that has a
\* transcript was answered.
C13_Witness ==
    /\ lastResponse.op = "chat"
    /\ lastResponse.status = 200
    /\ RequestKey(lastResponse.via).user_id # InterviewKey.user_id
    /\ ~IsFirstQuestion(interview.transcript)
    /\ ScoreOf.evaluationCount > 0

\* C14: a turn request on the caller's own session never answers with
\* success and a question when its update of the row was not stored.
C14_WriteFailureSurfaced ==
    (lastResponse.op = "chat" /\ Selected(lastResponse.via) /\ lastResponse.status = 200)
        => lastResponse.persisted

\* C15: a report request nobody ended the interview for, on a session that is
\* not completed and has fewer than MAX_TURNS turns, fails and leaves the
\* session as it is.
C15_EarlyReportRejected ==
    [][\A h \in Slots :
         (/\ ReportAnswers(h)
          /\ handler[h].via = "direct"
          /\ handler[h].row.status # "completed"
          /\ turnsCompleted < MAX_TURNS)
         => /\ lastResponse'.status # 200
            /\ interview' = interview]_vars

\* C16: a report request on a session that is still in_progress with MAX_TURNS
\* turns completed is not turned away for its state: it answers 200 with a
\* report and stores that report with status completed -- the one exception
\* being a 500 after the summarizer call or the update itself failed, which
\* leaves the row as it was.
C16_ReportAtMaxTurns ==
    [][\A h \in Slots :
         (/\ ReportAnswers(h)
          /\ handler[h].row.status = "in_progress"
          /\ turnsCompleted = MAX_TURNS)
         => \/ /\ lastResponse'.status = 200
               /\ lastResponse'.report # <<>>
               /\ interview'.analysis_result = lastResponse'.report
               /\ interview'.status = "completed"
            \/ /\ lastResponse'.status = 500
               /\ lastResponse'.error \in {"Groq API error", "Failed to save report"}
               /\ interview' = interview]_vars

\* C16, the case: the page's report request after MAX_TURNS turns succeeded.
C16_Witness ==
    /\ lastResponse.op = "report"
    /\ lastResponse.via = "client"
    /\ lastResponse.status = 200
    /\ turnsCompleted = MAX_TURNS
    /\ interview.status = "completed"

C18_OverallIsMeanOfDimensions ==
    (lastResponse.op = "report" /\ lastResponse.status = 200)
        => IsRoundedMean(lastResponse.report[1].overallScore,
                         DimSum(lastResponse.report[1]), 4)

\* C19: the scores a turn's response carries are the rounded running means
\* that the turn left in the row.
C19_ResponseCarriesRunningMeans ==
    [][\A h \in Slots :
         (ChatAnswers(h) /\ lastResponse'.persisted /\ lastResponse'.reportUpdate # <<>>)
         => \A d \in Dims :
               lastResponse'.reportUpdate[1][d] = AnalysisOf(interview')[d]]_vars

\* C20: a report request that names an interview which does not exist, or
\* which is not the caller's, is answered 404 "Interview not found" without a
\* summarizer call and without a change to the row or to another request.
C20_UnknownReportIs404 ==
    [][(/\ lastResponse'.op = "report"
        /\ lastResponse'.via # "anonymous"
        /\ ~Selected(lastResponse'.via)
        /\ lastResponse' # lastResponse)
       => /\ lastResponse'.status = 404
          /\ lastResponse'.error = "Interview not found"
          /\ summarizerCalls' = summarizerCalls
          /\ interview' = interview
          /\ handler' = handler]_vars

\* C20, the case: such a request was answered 404 on a session that has a
\* transcript and scored turns.
C20_Witness ==
    /\ lastResponse.op = "report"
    /\ lastResponse.status = 404
    /\ ~Selected(lastResponse.via)
    /\ ScoreOf.evaluationCount > 0

\* C21: a request without a valid user is answered 401 by every edge function,
\* before any call to an AI or speech service: its response is the 401 and
\* records no such call.
C21_AnonymousIsUnauthorized ==
    lastResponse.via = "anonymous"
        => /\ lastResponse.status = 401
           /\ lastResponse.outcome = "none"

\* C22: while the page alone drives the turns, the persisted transcript holds
\* no answer of the candidate twice.
C22_NoDuplicateAnswers ==
    deviations = 0
        => \A i, j \in DOMAIN interview.transcript :
              (i < j /\ interview.transcript[i].role = "user")
                  => interview.transcript[i] # interview.transcript[j]

\* C23: the Evaluator request of a turn that is not the first holds at most
\* HISTORY_ENTRIES conversation entries, and they are the latest entries of
\* the request's messages in their order.
C23_LastEntriesSent ==
    \A h \in Slots :
       (handler[h].pc = "chatLoaded" /\ ~IsFirstQuestion(handler[h].messages))
          => LET sent == handler[h].history
                 all == handler[h].messages
             IN /\ Len(sent) <= HISTORY_ENTRIES
                /\ Len(sent) = Len(all) \/ Len(sent) = HISTORY_ENTRIES
                /\ \A i \in 1..Len(sent) : sent[i] = all[Len(all) - Len(sent) + i]

\* C23, the case: a request whose messages are more than HISTORY_ENTRIES.
C23_Witness ==
    \E h \in Slots :
       /\ handler[h].pc = "chatLoaded"
       /\ Len(handler[h].messages) > HISTORY_ENTRIES
       /\ Len(handler[h].history) = HISTORY_ENTRIES

\* The introductory questions in a transcript.
IntroEntries(transcript) ==
    {i \in DOMAIN transcript : transcript[i].content = IntroQuestion}

\* C24: the introductory question is returned for a session without a
\* transcript only, so the persisted transcript never holds it twice.
C24_IntroOnlyOnce == Cardinality(IntroEntries(interview.transcript)) <= 1

\* C25: the question the page shows and keeps in its messages for a turn is
\* the question the server generated and stored for that turn.
C25_ClientShowsServerQuestion ==
    [][\A h \in Slots :
         (ChatAnswers(h) /\ handler[h].via = "client" /\ lastResponse'.persisted)
         => /\ client'.messages # <<>>
            /\ client'.messages[Len(client'.messages)].content = lastResponse'.message
            /\ interview'.transcript[Len(interview'.transcript)].content
                  = lastResponse'.message]_vars

\* The answers of the candidate in a sequence of messages.
AnswersIn(messages) ==
    {messages[i].content : i \in {j \in DOMAIN messages : messages[j].role = "user"}}

\* C26: when generate-report answers the page at the end of an interview that
\* ran without any fault, every answer the candidate gave is in the transcript
\* it read.
C26_ReportReadsEveryAnswer ==
    [][\A h \in Slots :
         (ReportAnswers(h) /\ handler[h].via = "client" /\ deviations' = 0)
         => AnswersIn(client.messages) \subseteq AnswersIn(handler[h].row.transcript)]_vars

\* C27: a turn request on a session that is completed after its MAX_TURNS
\* turns changes neither its transcript nor its analysis.
C27_CompletedIsStable ==
    [][(/\ interview.status = "completed"
        /\ turnsCompleted = MAX_TURNS
        /\ \E h \in Slots : ChatAnswers(h))
       => /\ interview'.transcript = interview.transcript
          /\ interview'.analysis_result = interview.analysis_result]_vars

\* C28: in the voice interview page a recording is never active while an
\* answer is being processed or the interviewer's audio plays, and at most one
\* answer is in processing: after the question was first asked, isRecording
\* excludes isProcessing and isAISpeaking and at most one asynchronous
\* function is under way.  The page breaks it: while a stop event is pending
\* the microphone button is enabled again.
ProcessingTasks == {i \in DOMAIN client.tasks : client.tasks[i].phase \in {"stt", "chat", "tts", "audio"}}

C28_RecordingExcludesProcessing ==
    client.questionCount >= 1 =>
        /\ client.isRecording => ~client.isProcessing /\ ~client.isAISpeaking
        /\ Cardinality(ProcessingTasks) <= 1

\* C29: in the page with fixed questions currentQuestionIndex stays within
\* 0..MAX_QUESTIONS-1 and the questions are asked (their audio played) in
\* order, each at most once: the j-th audio played is that of question j-1.
\* The page breaks it: two answers accepted before the first timer fires ask
\* the next question twice.
C29_QuestionsAskedOnceInOrder ==
    /\ client.currentQuestionIndex \in 0..(MAX_QUESTIONS - 1)
    /\ \A j \in DOMAIN client.asked : client.asked[j] = j - 1

\* C30: in the page with fixed questions every entry of userAnswers is the
\* text speech recognition heard for that question, never a caption of the
\* page.  The page breaks it: the interview-complete caption passes the test
\* of stopRecording.
C30_AnswersAreSpeech ==
    \A i \in DOMAIN client.userAnswers :
        client.userAnswers[i] # <<>> => client.userAnswers[i][1] = Speech(i)
====
